---- MODULE Spec2Model ----
(***************************************************************************)
(* Model of the two icon scripts of Jeramo/meetman:                        *)
(*   generate_icons.py          - opens icon_1024x1024.png and resizes it  *)
(*                                into the 17 manifest files               *)
(*   create_placeholder_icon.py - synthesizes a 1024x1024 image with a     *)
(*                                centred "MC" label, saves it, and        *)
(*                                resizes it into the same 17 files        *)
(* A state holds the file system (the icon files under each base           *)
(* directory), the running script's position and Python variables, and     *)
(* the run's trace of prints and file operations.                          *)
(*                                                                         *)
(* An image is a record [w, h, tag, gen, pw, ph]: its pixel width and      *)
(* height, the raster it originates from (tag), how many resamplings      *)
(* separate it from that raster (gen) and the dimensions of the image it   *)
(* was resampled from (pw, ph).  PNG is lossless, so a saved file holds    *)
(* the image that was saved.                                               *)
(***************************************************************************)
EXTENDS Integers, Sequences, FiniteSets

\* ------------------------------------------------------------------ bounds
\* A session is at most MaxRuns script runs, one after the other.
MaxRuns == 2
\* textbbox's left and top offsets range over 0..MaxBearing.
MaxBearing == 1
\* Text extents range over MaxExtent+1 values (default font) and
\* 2*MaxExtent+1 values around the canvas edge (TrueType font).
MaxExtent == 2

\* ------------------------------------------------------------------ paths
\* A path is a sequence of components; it is absolute when it starts with a
\* base directory.  ScriptDir is the directory holding both scripts.
ScriptDir == "/repo"
OtherDir == "/elsewhere"
Bases == {ScriptDir, OtherDir}
AppIconSet == "MeetingCopilot/Assets.xcassets/AppIcon.appiconset"
SourceName == "icon_1024x1024.png"

IsAbs(p) == Len(p) > 0 /\ p[1] \in Bases
\* os.path.join(a, b) for a relative b
Join(a, b) == a \o b
\* what the operating system does with a path: a relative one is resolved
\* against the process's working directory
Resolve(c, p) == IF IsAbs(p) THEN p ELSE <<c>> \o p

\* ------------------------------------------------------- generate_icons.py
base_dir == <<ScriptDir>>
source_icon == Join(base_dir, <<AppIconSet, SourceName>>)
G_output_dir == Join(base_dir, <<AppIconSet>>)
G_icons ==
  << [filename |-> "icon_20x20@2x.png",      size |-> 40],
     [filename |-> "icon_20x20@3x.png",      size |-> 60],
     [filename |-> "icon_29x29@2x.png",      size |-> 58],
     [filename |-> "icon_29x29@3x.png",      size |-> 87],
     [filename |-> "icon_40x40@2x.png",      size |-> 80],
     [filename |-> "icon_40x40@3x.png",      size |-> 120],
     [filename |-> "icon_60x60@2x.png",      size |-> 120],
     [filename |-> "icon_60x60@3x.png",      size |-> 180],
     [filename |-> "icon_20x20.png",         size |-> 20],
     [filename |-> "icon_20x20@2x-ipad.png", size |-> 40],
     [filename |-> "icon_29x29.png",         size |-> 29],
     [filename |-> "icon_29x29@2x-ipad.png", size |-> 58],
     [filename |-> "icon_40x40.png",         size |-> 40],
     [filename |-> "icon_40x40@2x-ipad.png", size |-> 80],
     [filename |-> "icon_76x76.png",         size |-> 76],
     [filename |-> "icon_76x76@2x.png",      size |-> 152],
     [filename |-> "icon_83.5x83.5@2x.png",  size |-> 167] >>

\* ----------------------------------------------- create_placeholder_icon.py
P_output_dir == <<AppIconSet>>
\* A plausible slip: a canvas smaller than the largest manifest target.
SmallCanvas == 1024 \div 8
size == 1024
source_path == Join(P_output_dir, <<SourceName>>)
P_icons ==
  << [filename |-> "icon_20x20@2x.png",      size |-> 40],
     [filename |-> "icon_20x20@3x.png",      size |-> 60],
     [filename |-> "icon_29x29@2x.png",      size |-> 58],
     [filename |-> "icon_29x29@3x.png",      size |-> 87],
     [filename |-> "icon_40x40@2x.png",      size |-> 80],
     [filename |-> "icon_40x40@3x.png",      size |-> 120],
     [filename |-> "icon_60x60@2x.png",      size |-> 120],
     [filename |-> "icon_60x60@3x.png",      size |-> 180],
     [filename |-> "icon_20x20.png",         size |-> 20],
     [filename |-> "icon_20x20@2x-ipad.png", size |-> 40],
     [filename |-> "icon_29x29.png",         size |-> 29],
     [filename |-> "icon_29x29@2x-ipad.png", size |-> 58],
     [filename |-> "icon_40x40.png",         size |-> 40],
     [filename |-> "icon_40x40@2x-ipad.png", size |-> 80],
     [filename |-> "icon_76x76.png",         size |-> 76],
     [filename |-> "icon_76x76@2x.png",      size |-> 152],
     [filename |-> "icon_83.5x83.5@2x.png",  size |-> 167] >>

\* ----------------------------------------------------------------- images
NoImage == [w |-> 0, h |-> 0, tag |-> "none", gen |-> 0, pw |-> 0, ph |-> 0]

\* Image.new('RGB', (n, n), color='#007AFF')
NewImage(n) ==
  [w |-> n, h |-> n, tag |-> "blue", gen |-> 0, pw |-> 0, ph |-> 0]

\* A plausible slip: only the width is set to the target, the height is kept.
ResizeWidthOnly(im, n) ==
  [w |-> n, h |-> im.h, tag |-> im.tag, gen |-> im.gen + 1,
   pw |-> im.w, ph |-> im.h]

\* im.resize((n, n), Image.Resampling.LANCZOS): a new n x n image resampled
\* from im; im itself is not changed.
Resize(im, n) ==
  [w |-> n, h |-> n, tag |-> im.tag, gen |-> im.gen + 1,
   pw |-> im.w, ph |-> im.h]

\* draw.text(...) on the placeholder: the raster now carries the label as
\* rendered by font f.
Labelled(im, f) ==
  [im EXCEPT !.tag = IF f = "Helvetica" THEN "blue_MC_helvetica"
                     ELSE "blue_MC_default"]

\* ------------------------------------------------------------ file system
Names == {SourceName} \cup {G_icons[k].filename : k \in 1..Len(G_icons)}
            \cup {P_icons[k].filename : k \in 1..Len(P_icons)}
AllPaths == {<<b, AppIconSet, n>> : b \in Bases, n \in Names}

\* Files a user may have put at the source path before a run: a proper
\* 1024x1024 icon, or an image that is neither square nor 1024 wide.
UserIcon == [w |-> 1024, h |-> 1024, tag |-> "user", gen |-> 0,
             pw |-> 0, ph |-> 0]
OddIcon == [w |-> 100, h |-> 60, tag |-> "odd", gen |-> 0,
            pw |-> 0, ph |-> 0]
\* What an output file may hold from earlier, unrelated work.
StaleIcon == [w |-> 7, h |-> 5, tag |-> "stale", gen |-> 0,
              pw |-> 0, ph |-> 0]

\* ------------------------------------------------------------------ trace
Ev(op, path, name, n) == [op |-> op, path |-> path, name |-> name, n |-> n]

VARIABLES
  fs,          \* AllPaths -> image, NoImage where no file exists
  dirs,        \* the base directories under which AppIconSet exists
  runs,        \* script runs started so far
  prev,        \* the previous completed run: its script, cwd, img and fs
  script,      \* "none", "generate" or "placeholder"
  cwd,         \* the working directory the run was started from
  pc,          \* position in the script
  img,         \* Python variable img
  font,        \* "unset", "Helvetica" or "default"
  bbox,        \* <<left, top, right, bottom>> of the text at (0, 0)
  text_width, text_height, x, y,
  label,       \* bounding box of the label as drawn on the canvas
  i,           \* index of the manifest entry the loop is at
  resized,     \* Python variable resized
  log,         \* the run's prints and file operations, in order
  exit_code    \* -1 while running, then the process's exit status

vars == <<fs, dirs, runs, prev, script, cwd, pc, img, font, bbox, text_width,
          text_height, x, y, label, i, resized, log, exit_code>>

NoBBox == <<0, 0, 0, 0>>
NoPrev == [script |-> "none", cwd |-> "none", img |-> NoImage,
           fs |-> [p \in AllPaths |-> NoImage]]

\* The variables of a process that has not started.
Fresh ==
  /\ script = "none" /\ cwd = "none" /\ pc = "idle"
  /\ img = NoImage /\ font = "unset" /\ bbox = NoBBox
  /\ text_width = 0 /\ text_height = 0 /\ x = 0 /\ y = 0
  /\ label = NoBBox /\ i = 0 /\ resized = NoImage
  /\ log = <<>> /\ exit_code = -1

\* The output directory of the repository exists or not; the source file is
\* absent, a proper icon or an odd image; the manifest files are absent or
\* hold stale images.  A file exists only in a directory that exists.
Init ==
  /\ dirs \in SUBSET Bases
  /\ \E src \in {NoImage, UserIcon, OddIcon}, old \in {NoImage, StaleIcon} :
       fs = [p \in AllPaths |->
               IF p[1] = ScriptDir /\ ScriptDir \in dirs
               THEN (IF p[3] = SourceName THEN src ELSE old)
               ELSE NoImage]
  /\ runs = 0
  /\ prev = NoPrev
  /\ Fresh

\* python3 <script>, started from working directory c
Start(s, c) ==
  /\ pc = "idle"
  /\ runs < MaxRuns
  /\ runs' = runs + 1
  /\ script' = s
  /\ cwd' = c
  /\ pc' = IF s = "generate" THEN "g_loading" ELSE "p_new"
  /\ UNCHANGED <<fs, dirs, prev, img, font, bbox, text_width, text_height,
                 x, y, label, i, resized, log, exit_code>>

\* The directory of an absolute path exists.
DirExists(p) == p[1] \in dirs /\ p[2] = AppIconSet

\* The process dies with an unhandled exception raised at `op`.
Crash(op, path) ==
  /\ log' = Append(log, Ev(op, path, "", 0))
  /\ pc' = "crashed"
  /\ exit_code' = 1

\* ===================================================== generate_icons.py
\* print(f"Loading source icon: {source_icon}")
G_PrintLoading ==
  /\ script = "generate" /\ pc = "g_loading"
  /\ log' = Append(log, Ev("print_loading", source_icon, "", 0))
  /\ pc' = "g_open"
  /\ UNCHANGED <<fs, dirs, runs, prev, script, cwd, img, font, bbox,
                 text_width, text_height, x, y, label, i, resized, exit_code>>

\* A plausible slip: a missing source is swallowed and the loop runs on an
\* empty image.
G_OpenIgnoreMissing ==
  /\ script = "generate" /\ pc = "g_open"
  /\ LET p == Resolve(cwd, source_icon) IN
       /\ img' = fs[p]
       /\ log' = Append(log, Ev("open", p, "", 0))
       /\ pc' = "g_resize"
       /\ i' = 1
  /\ UNCHANGED <<fs, dirs, runs, prev, script, cwd, font, bbox, text_width,
                 text_height, x, y, label, resized, exit_code>>

\* img = Image.open(source_icon): raises when there is no such file, and the
\* exception is not caught.
G_Open ==
  /\ script = "generate" /\ pc = "g_open"
  /\ LET p == Resolve(cwd, source_icon) IN
       IF fs[p] # NoImage
       THEN /\ img' = fs[p]
            /\ log' = Append(log, Ev("open", p, "", 0))
            /\ pc' = "g_resize"
            /\ i' = 1
            /\ UNCHANGED exit_code
       ELSE /\ Crash("open_failed", p)
            /\ UNCHANGED <<img, i>>
  /\ UNCHANGED <<fs, dirs, runs, prev, script, cwd, font, bbox, text_width,
                 text_height, x, y, label, resized>>

\* A plausible slip: the loop resizes in place (img = img.resize(...)), so
\* each entry is resampled from the previous one.
G_ResizeInPlace ==
  /\ script = "generate" /\ pc = "g_resize"
  /\ resized' = Resize(img, G_icons[i].size)
  /\ img' = resized'
  /\ pc' = "g_save"
  /\ UNCHANGED <<fs, dirs, runs, prev, script, cwd, font, bbox, text_width,
                 text_height, x, y, label, i, log, exit_code>>

\* resized = img.resize((size, size), Image.Resampling.LANCZOS)
G_Resize ==
  /\ script = "generate" /\ pc = "g_resize"
  /\ resized' = Resize(img, G_icons[i].size)
  /\ pc' = "g_save"
  /\ UNCHANGED <<fs, dirs, runs, prev, script, cwd, img, font, bbox,
                 text_width, text_height, x, y, label, i, log, exit_code>>

\* A plausible slip: a failed write is swallowed and the loop goes on.
G_SaveSwallow ==
  /\ script = "generate" /\ pc = "g_save"
  /\ LET p == Resolve(cwd, Join(G_output_dir, <<G_icons[i].filename>>)) IN
       \/ /\ DirExists(p)
          /\ fs' = [fs EXCEPT ![p] = resized]
          /\ log' = Append(log, Ev("save", p, "", 0))
       \/ /\ log' = Append(log, Ev("save_failed", p, "", 0))
          /\ UNCHANGED fs
  /\ pc' = "g_print"
  /\ UNCHANGED <<dirs, runs, prev, script, cwd, img, font, bbox, text_width,
                 text_height, x, y, label, i, resized, exit_code>>

\* A plausible slip: an existing file is not overwritten.
G_SaveIfAbsent ==
  /\ script = "generate" /\ pc = "g_save"
  /\ LET p == Resolve(cwd, Join(G_output_dir, <<G_icons[i].filename>>)) IN
       \/ /\ DirExists(p)
          /\ fs' = IF fs[p] = NoImage THEN [fs EXCEPT ![p] = resized] ELSE fs
          /\ log' = Append(log, Ev("save", p, "", 0))
          /\ pc' = "g_print"
          /\ UNCHANGED exit_code
       \/ /\ Crash("save_failed", p)
          /\ UNCHANGED fs
  /\ UNCHANGED <<dirs, runs, prev, script, cwd, img, font, bbox, text_width,
                 text_height, x, y, label, i, resized>>

\* output_path = os.path.join(output_dir, filename);
\* resized.save(output_path, "PNG"): replaces whatever the file held; raises
\* (directory missing, no permission, disk full) without writing, and the
\* exception is not caught.
G_Save ==
  /\ script = "generate" /\ pc = "g_save"
  /\ LET p == Resolve(cwd, Join(G_output_dir, <<G_icons[i].filename>>)) IN
       \/ /\ DirExists(p)
          /\ fs' = [fs EXCEPT ![p] = resized]
          /\ log' = Append(log, Ev("save", p, "", 0))
          /\ pc' = "g_print"
          /\ UNCHANGED exit_code
       \/ /\ Crash("save_failed", p)
          /\ UNCHANGED fs
  /\ UNCHANGED <<dirs, runs, prev, script, cwd, img, font, bbox, text_width,
                 text_height, x, y, label, i, resized>>

\* print(f"Created {filename} ({size}x{size})"), then the next entry of the
\* dict in insertion order, or the end of the loop.
G_Print ==
  /\ script = "generate" /\ pc = "g_print"
  /\ log' = Append(log, Ev("print_created", <<>>, G_icons[i].filename,
                           G_icons[i].size))
  /\ i' = i + 1
  /\ pc' = IF i < Len(G_icons) THEN "g_resize" ELSE "g_summary"
  /\ UNCHANGED <<fs, dirs, runs, prev, script, cwd, img, font, bbox,
                 text_width, text_height, x, y, label, resized, exit_code>>

\* print("\nAll icons generated successfully!") and the script ends.
G_Summary ==
  /\ script = "generate" /\ pc = "g_summary"
  /\ log' = Append(log, Ev("print_summary", <<>>, "", 0))
  /\ pc' = "done"
  /\ exit_code' = 0
  /\ UNCHANGED <<fs, dirs, runs, prev, script, cwd, img, font, bbox,
                 text_width, text_height, x, y, label, i, resized>>

\* ============================================= create_placeholder_icon.py
\* img = Image.new('RGB', (size, size), color='#007AFF'); draw = ImageDraw.Draw(img)
P_New ==
  /\ script = "placeholder" /\ pc = "p_new"
  /\ img' = NewImage(size)
  /\ pc' = "p_font"
  /\ UNCHANGED <<fs, dirs, runs, prev, script, cwd, font, bbox, text_width,
                 text_height, x, y, label, i, resized, log, exit_code>>

\* A plausible slip: no fallback, a font that cannot be loaded ends the run.
P_FontNoFallback ==
  /\ script = "placeholder" /\ pc = "p_font"
  /\ \/ /\ font' = "Helvetica"
        /\ pc' = "p_measure"
        /\ UNCHANGED <<log, exit_code>>
     \/ /\ Crash("font_failed", <<>>)
        /\ UNCHANGED font
  /\ UNCHANGED <<fs, dirs, runs, prev, script, cwd, img, bbox, text_width,
                 text_height, x, y, label, i, resized>>

\* try: font = ImageFont.truetype("/System/Library/Fonts/Helvetica.ttc", 400)
\* except: font = ImageFont.load_default()
\* The bare except catches every failure of the load.
P_Font ==
  /\ script = "placeholder" /\ pc = "p_font"
  /\ \/ font' = "Helvetica"
     \/ font' = "default"
  /\ pc' = "p_measure"
  /\ UNCHANGED <<fs, dirs, runs, prev, script, cwd, img, bbox, text_width,
                 text_height, x, y, label, i, resized, log, exit_code>>

\* The boxes draw.textbbox((0, 0), "MC", font=f) may return: small ones for
\* the built-in font, ones about as wide as the canvas (narrower and wider)
\* for the 400-point TrueType font; left and top may be non-zero.
TextBBoxes(f) ==
  LET ws == IF f = "Helvetica" THEN (size - MaxExtent)..(size + MaxExtent)
            ELSE 12..(12 + MaxExtent)
      hs == IF f = "Helvetica" THEN (size \div 4)..(size \div 4 + MaxExtent)
            ELSE 9..(9 + MaxExtent)
  IN {<<l, t, l + w, t + h>> : l \in 0..MaxBearing, t \in 0..MaxBearing,
                               w \in ws, h \in hs}

\* bbox = draw.textbbox((0, 0), text, font=font)
P_Measure ==
  /\ script = "placeholder" /\ pc = "p_measure"
  /\ bbox' \in TextBBoxes(font)
  /\ pc' = "p_center"
  /\ UNCHANGED <<fs, dirs, runs, prev, script, cwd, img, font, text_width,
                 text_height, x, y, label, i, resized, log, exit_code>>

\* A plausible slip: the box's own offset is not subtracted.
P_CenterNoOffset ==
  /\ script = "placeholder" /\ pc = "p_center"
  /\ text_width' = bbox[3] - bbox[1]
  /\ text_height' = bbox[4] - bbox[2]
  /\ x' = (size - text_width') \div 2
  /\ y' = (size - text_height') \div 2
  /\ pc' = "p_draw"
  /\ UNCHANGED <<fs, dirs, runs, prev, script, cwd, img, font, bbox, label,
                 i, resized, log, exit_code>>

\* text_width = bbox[2] - bbox[0]; text_height = bbox[3] - bbox[1]
\* x = (size - text_width) // 2 - bbox[0]
\* y = (size - text_height) // 2 - bbox[1]
\* (Python's // and \div both round towards minus infinity.)
P_Center ==
  /\ script = "placeholder" /\ pc = "p_center"
  /\ text_width' = bbox[3] - bbox[1]
  /\ text_height' = bbox[4] - bbox[2]
  /\ x' = (size - text_width') \div 2 - bbox[1]
  /\ y' = (size - text_height') \div 2 - bbox[2]
  /\ pc' = "p_draw"
  /\ UNCHANGED <<fs, dirs, runs, prev, script, cwd, img, font, bbox, label,
                 i, resized, log, exit_code>>

\* draw.text((x, y), text, fill='white', font=font): the label covers the
\* box measured at the origin, moved by (x, y).
P_Draw ==
  /\ script = "placeholder" /\ pc = "p_draw"
  /\ label' = <<x + bbox[1], y + bbox[2], x + bbox[3], y + bbox[4]>>
  /\ img' = Labelled(img, font)
  /\ pc' = "p_save_source"
  /\ UNCHANGED <<fs, dirs, runs, prev, script, cwd, font, bbox, text_width,
                 text_height, x, y, i, resized, log, exit_code>>

\* bbox, text_width, text_height, x, y and the label's place are not read
\* after line 29; the model forgets them from here on.
ForgetText ==
  /\ bbox' = NoBBox /\ label' = NoBBox
  /\ text_width' = 0 /\ text_height' = 0 /\ x' = 0 /\ y' = 0

\* A plausible slip: a failed save of the source is swallowed.
P_SaveSourceSwallow ==
  /\ script = "placeholder" /\ pc = "p_save_source"
  /\ LET p == Resolve(cwd, source_path) IN
       \/ /\ DirExists(p)
          /\ fs' = [fs EXCEPT ![p] = img]
          /\ log' = Append(log, Ev("save_source", p, "", 0))
       \/ /\ log' = Append(log, Ev("save_source_failed", p, "", 0))
          /\ UNCHANGED fs
  /\ pc' = "p_print_source"
  /\ ForgetText
  /\ UNCHANGED <<dirs, runs, prev, script, cwd, img, font, i, resized,
                 exit_code>>

\* source_path = os.path.join(output_dir, "icon_1024x1024.png")
\* img.save(source_path, "PNG")
P_SaveSource ==
  /\ script = "placeholder" /\ pc = "p_save_source"
  /\ LET p == Resolve(cwd, source_path) IN
       \/ /\ DirExists(p)
          /\ fs' = [fs EXCEPT ![p] = img]
          /\ log' = Append(log, Ev("save_source", p, "", 0))
          /\ pc' = "p_print_source"
          /\ UNCHANGED exit_code
       \/ /\ Crash("save_source_failed", p)
          /\ UNCHANGED fs
  /\ ForgetText
  /\ UNCHANGED <<dirs, runs, prev, script, cwd, img, font, i, resized>>

\* print(f"Created source icon: {source_path}"), then the loop's first entry
P_PrintSource ==
  /\ script = "placeholder" /\ pc = "p_print_source"
  /\ log' = Append(log, Ev("print_source", source_path, "", 0))
  /\ i' = 1
  /\ pc' = "p_resize"
  /\ UNCHANGED <<fs, dirs, runs, prev, script, cwd, img, font, bbox,
                 text_width, text_height, x, y, label, resized, exit_code>>

\* resized = img.resize((icon_size, icon_size), Image.Resampling.LANCZOS)
P_Resize ==
  /\ script = "placeholder" /\ pc = "p_resize"
  /\ resized' = Resize(img, P_icons[i].size)
  /\ pc' = "p_save"
  /\ UNCHANGED <<fs, dirs, runs, prev, script, cwd, img, font, bbox,
                 text_width, text_height, x, y, label, i, log, exit_code>>

\* output_path = os.path.join(output_dir, filename);
\* resized.save(output_path, "PNG")
P_Save ==
  /\ script = "placeholder" /\ pc = "p_save"
  /\ LET p == Resolve(cwd, Join(P_output_dir, <<P_icons[i].filename>>)) IN
       \/ /\ DirExists(p)
          /\ fs' = [fs EXCEPT ![p] = resized]
          /\ log' = Append(log, Ev("save", p, "", 0))
          /\ pc' = "p_print"
          /\ UNCHANGED exit_code
       \/ /\ Crash("save_failed", p)
          /\ UNCHANGED fs
  /\ UNCHANGED <<dirs, runs, prev, script, cwd, img, font, bbox, text_width,
                 text_height, x, y, label, i, resized>>

\* print(f"Created {filename} ({icon_size}x{icon_size})"), then the next
\* entry of the dict in insertion order, or the end of the loop.
P_Print ==
  /\ script = "placeholder" /\ pc = "p_print"
  /\ log' = Append(log, Ev("print_created", <<>>, P_icons[i].filename,
                           P_icons[i].size))
  /\ i' = i + 1
  /\ pc' = IF i < Len(P_icons) THEN "p_resize" ELSE "p_summary"
  /\ UNCHANGED <<fs, dirs, runs, prev, script, cwd, img, font, bbox,
                 text_width, text_height, x, y, label, resized, exit_code>>

\* print("\nAll icons generated successfully!") and the script ends.
P_Summary ==
  /\ script = "placeholder" /\ pc = "p_summary"
  /\ log' = Append(log, Ev("print_summary", <<>>, "", 0))
  /\ pc' = "done"
  /\ exit_code' = 0
  /\ UNCHANGED <<fs, dirs, runs, prev, script, cwd, img, font, bbox,
                 text_width, text_height, x, y, label, i, resized>>

\* =============================================================== sessions
\* After a run that ended with exit status 0 the user may run a script
\* again: the process is gone, the files stay.  prev remembers the finished
\* run.
Rerun ==
  /\ pc = "done"
  /\ runs < MaxRuns
  /\ prev' = [script |-> script, cwd |-> cwd, img |-> img, fs |-> fs]
  /\ script' = "none" /\ cwd' = "none" /\ pc' = "idle"
  /\ img' = NoImage /\ font' = "unset" /\ ForgetText
  /\ i' = 0 /\ resized' = NoImage /\ log' = <<>> /\ exit_code' = -1
  /\ UNCHANGED <<fs, dirs, runs>>

Next ==
  \/ \E s \in {"generate", "placeholder"}, c \in Bases : Start(s, c)
  \/ G_PrintLoading
  \/ G_Open
  \/ G_Resize
  \/ G_Save
  \/ G_Print
  \/ G_Summary
  \/ P_New
  \/ P_Font
  \/ P_Measure
  \/ P_Center
  \/ P_Draw
  \/ P_SaveSource
  \/ P_PrintSource
  \/ P_Resize
  \/ P_Save
  \/ P_Print
  \/ P_Summary
  \/ Rerun

Spec == Init /\ [][Next]_vars

\* ================================================================ claims
\* The running script's manifest, output directory and source file, as the
\* operating system resolves them.
RunIcons == IF script = "generate" THEN G_icons ELSE P_icons
RunOutDir ==
  Resolve(cwd, IF script = "generate" THEN G_output_dir ELSE P_output_dir)
RunSource ==
  Resolve(cwd, IF script = "generate" THEN source_icon ELSE source_path)
PrevOutDir ==
  Resolve(prev.cwd,
          IF prev.script = "generate" THEN G_output_dir ELSE P_output_dir)
OutPath(k) == Join(RunOutDir, <<RunIcons[k].filename>>)
Ops(opset) == SelectSeq(log, LAMBDA e : e.op \in opset)
Happened(op) == \E j \in 1..Len(log) : log[j].op = op
IsPrefix(a, b) == Len(a) <= Len(b) /\ SubSeq(b, 1, Len(a)) = a
Dist(a, b) == IF a >= b THEN a - b ELSE b - a

\* C1: when a run of either script reaches its end, each of the 17 manifest
\* entries has its file in the output directory, and the file's width and
\* height both equal the entry's edge.
C1_AllOutputsSized ==
  pc = "done" =>
    /\ Len(RunIcons) = 17
    /\ \A k \in 1..Len(RunIcons) :
         /\ fs[OutPath(k)] # NoImage
         /\ fs[OutPath(k)].w = RunIcons[k].size
         /\ fs[OutPath(k)].h = RunIcons[k].size

\* A finished run whose source was not square.
C1_Witness == pc = "done" /\ img.w # img.h

\* C2: generate_icons.py with no source file to open ends at once with exit
\* status 1, having printed only the loading line and written nothing; with
\* the source opened and no write failing it ends with exit status 0.
C2_OpenFailureIsFatal ==
  script = "generate" =>
    /\ (fs[RunSource] = NoImage /\ pc \notin {"g_loading", "g_open"}) =>
         /\ pc = "crashed"
         /\ exit_code = 1
         /\ log = << Ev("print_loading", source_icon, "", 0),
                     Ev("open_failed", RunSource, "", 0) >>
    /\ (pc \in {"done", "crashed"} /\ Happened("open")
          /\ ~Happened("save_failed")) =>
         (pc = "done" /\ exit_code = 0)
    /\ (exit_code = 0) <=> (pc = "done")

\* generate_icons.py has died on a missing source.
C2_Witness ==
  script = "generate" /\ pc = "crashed" /\ fs[RunSource] = NoImage

\* C3: in create_placeholder_icon.py a font that fails to load never ends
\* the run (only a failed write does), the default font takes its place, and
\* a finished run has written the 1024x1024 source and the 17 outputs with
\* the manifest's dimensions, whichever font was used.
C3_FontFallback ==
  script = "placeholder" =>
    /\ pc = "crashed" =>
         log[Len(log)].op \in {"save_source_failed", "save_failed"}
    /\ pc \notin {"p_new", "p_font"} =>
         (font \in {"Helvetica", "default"} /\ img.w = 1024 /\ img.h = 1024)
    /\ pc = "done" =>
         /\ fs[RunSource].w = 1024 /\ fs[RunSource].h = 1024
         /\ \A k \in 1..17 :
              /\ fs[OutPath(k)].w = P_icons[k].size
              /\ fs[OutPath(k)].h = P_icons[k].size

\* A placeholder run that fell back to the default font and finished.
C3_Witness == script = "placeholder" /\ font = "default" /\ pc = "done"

\* The loop's trace of a complete run: for each entry in manifest order its
\* write, then its progress line; then the summary line.
FullLoop ==
  [j \in 1..(2 * Len(RunIcons) + 1) |->
     IF j = 2 * Len(RunIcons) + 1 THEN Ev("print_summary", <<>>, "", 0)
     ELSE IF j % 2 = 1 THEN Ev("save", OutPath((j + 1) \div 2), "", 0)
     ELSE Ev("print_created", <<>>, RunIcons[j \div 2].filename,
             RunIcons[j \div 2].size)]

\* C4: the loop's writes, progress lines and summary line are always a
\* prefix of: write 1, line 1, ..., write 17, line 17, summary; and the
\* summary is in the trace only with all 17 writes and lines before it and
\* no failed write.
C4_LoopTrace ==
  script # "none" =>
    LET loop == Ops({"save", "print_created", "print_summary"}) IN
      /\ IsPrefix(loop, FullLoop)
      /\ Happened("print_summary") =>
           (Len(loop) = 2 * 17 + 1 /\ ~Happened("save_failed")
              /\ ~Happened("save_source_failed"))
      /\ Happened("save_failed") => log[Len(log)].op = "save_failed"

\* A run that printed the summary line.
C4_Witness == Happened("print_summary") /\ pc = "done"

\* C5: when a run finishes, every manifest file holds the resampling of this
\* run's source to the entry's edge, whatever the file held before; and when
\* the previous finished run had the same source and output directory, every
\* manifest file is as that run left it.
C5_RerunIdempotent ==
  pc = "done" =>
    /\ \A k \in 1..Len(RunIcons) :
         /\ fs[OutPath(k)].tag = img.tag
         /\ fs[OutPath(k)].gen = img.gen + 1
         /\ fs[OutPath(k)].w = RunIcons[k].size
         /\ fs[OutPath(k)].h = RunIcons[k].size
    /\ (prev.script # "none" /\ prev.img = img /\ PrevOutDir = RunOutDir) =>
         \A k \in 1..Len(RunIcons) : fs[OutPath(k)] = prev.fs[OutPath(k)]

\* A second run on the same source and directory has finished.
C5_Witness ==
  pc = "done" /\ prev.script # "none" /\ prev.img = img
    /\ PrevOutDir = RunOutDir

\* C6 as stated: every resize of either script has a positive target edge
\* that is at most the edge of a square source.
C6_AlwaysDownscale ==
  pc \in {"g_save", "p_save"} =>
    /\ RunIcons[i].size > 0
    /\ img.w = img.h
    /\ RunIcons[i].size <= img.w

\* C6 amended: every target edge is a positive integer; every resize of
\* create_placeholder_icon.py, and every resize of generate_icons.py whose
\* source file holds a square image of edge at least 180, is a downscale of
\* a square source.
C6_DownscaleOfSquareSource ==
  pc \in {"g_save", "p_save"} =>
    /\ RunIcons[i].size > 0
    /\ (script = "placeholder" \/ (img.w = img.h /\ img.w >= 180)) =>
         (img.w = img.h /\ RunIcons[i].size <= img.w /\ resized.w <= img.w
            /\ resized.h <= img.h)

\* The placeholder has just resized its canvas to the largest target.
C6_Witness == pc = "p_save" /\ P_icons[i].size = 180

\* C7: the label as drawn has left and right margins that differ by at most
\* one pixel, and top and bottom margins that differ by at most one pixel,
\* within the 1024x1024 canvas.
C7_Centered ==
  pc = "p_save_source" =>
    /\ x = (1024 - text_width) \div 2 - bbox[1]
    /\ y = (1024 - text_height) \div 2 - bbox[2]
    /\ label[3] - label[1] = bbox[3] - bbox[1]
    /\ label[4] - label[2] = bbox[4] - bbox[2]
    /\ Dist(label[1], 1024 - label[3]) <= 1
    /\ Dist(label[2], 1024 - label[4]) <= 1

\* A label whose box has an offset and cannot be centred exactly.
C7_Witness ==
  /\ pc = "p_save_source" /\ bbox[1] > 0 /\ bbox[2] > 0
  /\ label[1] # 1024 - label[3]

\* C8 as stated: from every working directory create_placeholder_icon.py
\* writes the file generate_icons.py reads, into the directory it writes to;
\* so a generate_icons.py run after a finished placeholder run opens the
\* image that run produced.
C8_SamePaths ==
  /\ script = "placeholder" =>
       /\ Resolve(cwd, source_path) = Resolve(cwd, source_icon)
       /\ Resolve(cwd, P_output_dir) = Resolve(cwd, G_output_dir)
  /\ (script = "generate" /\ prev.script = "placeholder"
        /\ pc \notin {"g_loading", "g_open"}) => img = prev.img

\* C9: create_placeholder_icon.py never opens a file; every manifest write
\* comes after the write of icon_1024x1024.png; and when that write fails
\* the run ends there with no manifest file written.
C9_SourceSavedFirst ==
  script = "placeholder" =>
    /\ ~Happened("open")
    /\ \A j \in 1..Len(log) :
         log[j].op = "save" =>
           /\ \E j0 \in 1..(j - 1) : log[j0].op = "save_source"
           /\ fs[log[j].path].tag = img.tag
    /\ pc \in {"p_resize", "p_save", "p_print", "p_summary", "done"} =>
         (Happened("save_source") /\ fs[RunSource] = img)
    /\ Happened("save_source_failed") =>
         (pc = "crashed" /\ ~Happened("save") /\ ~Happened("print_created"))

\* The placeholder's source could not be saved.
C9_Witness == script = "placeholder" /\ Happened("save_source_failed")

\* C10: once the loop has started, the image in memory is still the source
\* (equal to the source file, which the loop does not write), every file the
\* loop wrote is a direct resampling of it, no manifest filename is
\* icon_1024x1024.png, and the run has written at most 18 distinct files
\* (17 in generate_icons.py).
C10_SourceUntouched ==
  /\ \A k \in 1..17 :
       G_icons[k].filename # SourceName /\ P_icons[k].filename # SourceName
  /\ i >= 1 =>
       /\ img = fs[RunSource]
       /\ \A j \in 1..Len(log) :
            log[j].op = "save" =>
              /\ log[j].path # RunSource
              /\ fs[log[j].path].tag = img.tag
              /\ fs[log[j].path].gen = img.gen + 1
              /\ fs[log[j].path].pw = img.w
              /\ fs[log[j].path].ph = img.h
       /\ Cardinality({log[j].path : j \in {n \in 1..Len(log) :
                         log[n].op \in {"save", "save_source"}}})
            <= IF script = "generate" THEN 17 ELSE 18

\* A placeholder run that wrote all 18 files.
C10_Witness ==
  /\ script = "placeholder" /\ pc = "done"
  /\ Cardinality({log[j].path : j \in {n \in 1..Len(log) :
                    log[n].op \in {"save", "save_source"}}}) = 18

====
